---------------------------- MODULE Spec2Model ----------------------------
(***************************************************************************)
(* Request pipeline and rate limiter of the lixqa-api server.               *)
(*                                                                         *)
(* The server runs on a single-threaded event loop: a task (the            *)
(* synchronous part of a request up to its next await, or the sweep timer  *)
(* callback) runs to completion before another task starts.  `running` is  *)
(* the request whose synchronous code is executing (0 = loop idle).        *)
(* The response writer (Express `res`) is an external collaborator; the    *)
(* model records every call the code makes on it in `sent`.                *)
(***************************************************************************)
EXTENDS Integers, Sequences, FiniteSets, TLC

(* ----------------------------- bounds ---------------------------------- *)
NumSlots == 2        \* requests in flight at the same time
MaxFiles == 2        \* user route files discovered at startup
NumMw == 2           \* loaded middleware entries
MaxTime == 2         \* the clock runs over 0..MaxTime
MaxLimit == 2        \* settings.limit ranges over 0..MaxLimit
MaxRemember == 2     \* settings.remember ranges over 1..MaxRemember
MaxPunish == 1       \* settings.punishment ranges over 0..MaxPunish

Slots == 1..NumSlots

IPs == {"ip1", "ip2"}
Principals == {"u1", "u2"}
Methods == {"GET", "POST"}

\* URLs are sequences of path segments; a pattern segment starting a
\* placeholder is written ":id".
DefaultUrls == {<<"a", "1">>, <<"a", "2">>, <<"zzz">>}
Urls == DefaultUrls \cup {<<"a">>, <<"sys">>, <<"b", "1">>}

\* StatusCodes used by the pipeline
NOT_FOUND == 404
SERVICE_UNAVAILABLE == 503
MOVED_PERMANENTLY == 301
TOO_MANY_REQUESTS == 429
UNAUTHORIZED == 401
INTERNAL_SERVER_ERROR == 500
BAD_REQUEST == 400
METHOD_NOT_ALLOWED == 405

Max(a, b) == IF a >= b THEN a ELSE b
Min(a, b) == IF a <= b THEN a ELSE b

(* --------------------------- route table ------------------------------- *)
\* A route file is named by its path below the routes directory, without
\* the .ts extension, as a sequence of segments: users/[id]/_.ts is
\* <<"users", "[id]", "_">>.
UserFiles == { <<"a", "_">>, <<"a">>, <<"[id]">>, <<"sys">> }
InternalFiles == { <<"sys">> }

\* routePath.replace(/\[([^\]]+)\]/g, ':$1') on one segment
BracketToParam(seg) == IF seg = "[id]" THEN ":id" ELSE seg

\* filePathToRoutePath: the index file _ names its directory, [x] becomes :x.
filePathToRoutePath(file) ==
  LET dir == IF file = <<"_">> THEN <<>>
             ELSE IF Len(file) > 1 /\ file[Len(file)] = "_"
                  THEN SubSeq(file, 1, Len(file) - 1)
                  ELSE file
  IN [i \in 1..Len(dir) |-> BracketToParam(dir[i])]

\* new Route(server, filePath), with route.path; `disabled` is set by the
\* route validation for a duplicate-path conflict.
NewRoute(file, internal) ==
  [path |-> filePathToRoutePath(file), file |-> file, reserved |-> internal,
   disabled |-> FALSE]

\* Collection.set(route.path, route): a Map keeps the position of a key it
\* already holds and replaces its value.
MapSet(its, route) ==
  IF \E i \in 1..Len(its) : its[i].path = route.path
  THEN [i \in 1..Len(its) |-> IF its[i].path = route.path THEN route ELSE its[i]]
  ELSE Append(its, route)

\* RouteManager.loadInternalRoutes: the internal routes, and their paths.
RECURSIVE loadInternalRoutes(_)
loadInternalRoutes(files) ==
  IF files = <<>> THEN <<>>
  ELSE MapSet(loadInternalRoutes(SubSeq(files, 1, Len(files) - 1)),
              NewRoute(files[Len(files)], TRUE))

\* The user-route loop of RouteManager.init: a user route at a reserved
\* path is skipped.
RECURSIVE LoadUserRoutes(_, _)
LoadUserRoutes(files, reservedPaths) ==
  IF files = <<>> THEN <<>>
  ELSE LET before == LoadUserRoutes(SubSeq(files, 1, Len(files) - 1), reservedPaths)
           route == NewRoute(files[Len(files)], FALSE)
       IN IF route.path \in reservedPaths THEN before ELSE MapSet(before, route)

\* internalRoutes.forEach((route, routePath) => this.items.set(routePath, route))
RECURSIVE SetAll(_, _)
SetAll(its, routes) ==
  IF routes = <<>> THEN its
  ELSE SetAll(MapSet(its, Head(routes)), Tail(routes))

\* RouteManager.init
RouteManagerInit(userFiles, internalFiles) ==
  LET internalRoutes == loadInternalRoutes(internalFiles)
      reservedPaths == {internalRoutes[i].path : i \in 1..Len(internalRoutes)}
  IN SetAll(LoadUserRoutes(userFiles, reservedPaths), internalRoutes)

\* Variant of validateRoutes: a conflict is reported and nothing disabled.
validateOnlyReports(its, userFiles) == its

\* RouteManager.validateRoutes, as far as it decides what is served: two
\* user route files deriving one path are a conflict and the route at
\* that path is disabled.
validateRoutes(its, userFiles) ==
  [i \in 1..Len(its) |->
     IF /\ ~its[i].reserved
        /\ \E m, n \in 1..Len(userFiles) :
              /\ m # n
              /\ filePathToRoutePath(userFiles[m]) = its[i].path
              /\ filePathToRoutePath(userFiles[n]) = its[i].path
     THEN [its[i] EXCEPT !.disabled = TRUE]
     ELSE its[i]]

\* Server.init: routes.init() ... routes.validateRoutes()
ServerInit(userFiles, internalFiles) ==
  validateRoutes(RouteManagerInit(userFiles, internalFiles), userFiles)

\* The route table of a deployment with the one route file a/[id].ts.
RouteItems == ServerInit(<< <<"a", "[id]">> >>, <<>>)

IsPlaceholder(seg) == seg \in {":id"}

\* path-to-regexp match(route.path)(url)
Match(pattern, url) ==
  /\ Len(pattern) = Len(url)
  /\ \A i \in 1..Len(pattern) : IsPlaceholder(pattern[i]) \/ pattern[i] = url[i]

\* matched.params: the URL segment of every placeholder of the pattern
Params(pattern, url) ==
  {<<pattern[i], url[i]>> : i \in {j \in 1..Len(pattern) : IsPlaceholder(pattern[j])}}

\* Variant of resolveUrl: the last registered route whose pattern matches.
resolveLast(its, url) ==
  IF \E i \in 1..Len(its) : Match(its[i].path, url)
  THEN LET last == CHOOSE i \in 1..Len(its) :
                     /\ Match(its[i].path, url)
                     /\ \A j \in (i + 1)..Len(its) : ~Match(its[j].path, url)
       IN [found |-> TRUE, route |-> its[last],
           params |-> Params(its[last].path, url)]
  ELSE [found |-> FALSE]

\* Variant of resolveUrl: a URL no pattern matches gets the first
\* registered route.
resolveOrFirst(its, url) ==
  IF its = <<>> THEN [found |-> FALSE]
  ELSE IF \E i \in 1..Len(its) : Match(its[i].path, url)
  THEN LET first == CHOOSE i \in 1..Len(its) :
                      /\ Match(its[i].path, url)
                      /\ \A j \in 1..(i - 1) : ~Match(its[j].path, url)
       IN [found |-> TRUE, route |-> its[first],
           params |-> Params(its[first].path, url)]
  ELSE [found |-> TRUE, route |-> its[1], params |-> {}]

\* RouteManager.resolveUrl: the first registered route whose pattern
\* matches, with the parameters; found = FALSE stands for null.
resolveUrl(its, url) ==
  IF \E i \in 1..Len(its) : Match(its[i].path, url)
  THEN LET first == CHOOSE i \in 1..Len(its) :
                      /\ Match(its[i].path, url)
                      /\ \A j \in 1..(i - 1) : ~Match(its[j].path, url)
       IN [found |-> TRUE, route |-> its[first],
           params |-> Params(its[first].path, url)]
  ELSE [found |-> FALSE]

(* --------------------------- rate limiter ------------------------------ *)
\* A settings property no configuration level sets reads undefined;
\* arithmetic on undefined yields NaN. Both are kept apart from the numbers.
Undefined == 0 - 1
NaN == 0 - 2
IsNumber(x) == x \notin {Undefined, NaN}

\* a + b, a - b, a >= b, a > b, Math.max(a, b) of JavaScript numbers
Plus(a, b) == IF IsNumber(a) /\ IsNumber(b) THEN a + b ELSE NaN
Minus(a, b) == IF IsNumber(a) /\ IsNumber(b) THEN a - b ELSE NaN
Geq(a, b) == IsNumber(a) /\ IsNumber(b) /\ a >= b
Gt(a, b) == IsNumber(a) /\ IsNumber(b) /\ a > b
MathMax(a, b) == IF IsNumber(a) /\ IsNumber(b) THEN Max(a, b) ELSE NaN

\* Variant of getClientIdentifier: every caller is the one client "global".
ClientIsGlobal(settings, ip, authentication) == "global"

\* Variant of getClientIdentifier: every caller is keyed by its address.
ClientIsIp(settings, ip, authentication) == ip

\* RatelimitManager.getClientIdentifier
getClientIdentifier(settings, ip, authentication) ==
  CASE settings.scope = "ip" -> ip
    [] settings.scope = "authentication" ->
         IF authentication # "" THEN authentication ELSE ip
    [] settings.scope = "global" -> "global"
    [] OTHER -> ip

\* Variant of getRouteIdentifier: the pattern whatever settings.type says.
RouteIsPattern(settings, method, routePath, rawPath) == <<method, routePath>>

\* RatelimitManager.getRouteIdentifier: method + route.path | rawPath
getRouteIdentifier(settings, method, routePath, rawPath) ==
  CASE settings.type = "endpoint" -> <<method, routePath>>
    [] settings.type = "parameter" -> <<method, rawPath>>
    [] OTHER -> <<method, <<>> >>

\* Variant of FindItem: a lookup that never finds the bucket.
FindsNothing(its, c, rt) == 0

\* this.items.find(item => item.client == c && item.route == rt): index of
\* the first matching item, 0 when there is none.
FindItem(its, c, rt) ==
  IF \E i \in 1..Len(its) : its[i].client = c /\ its[i].route = rt
  THEN CHOOSE i \in 1..Len(its) :
         /\ its[i].client = c /\ its[i].route = rt
         /\ \A j \in 1..(i - 1) : ~(its[j].client = c /\ its[j].route = rt)
  ELSE 0

\* The item check() creates when find() returns nothing.
NewItem(settings, c, rt, t) ==
  [client |-> c, route |-> rt, count |-> 0, start |-> t,
   end |-> Plus(t, settings.remember), limited |-> FALSE]

\* Variant of Punish: the limit is compared with > instead of >=.
PunishAbove(settings, item, t) ==
  IF Gt(item.count, settings.limit)
  THEN IF item.limited
       THEN IF settings.strict
            THEN [item EXCEPT !.end = Plus(t, settings.punishment)]
            ELSE item
       ELSE [item EXCEPT !.limited = TRUE,
                         !.end = Plus(t, MathMax(settings.punishment, settings.remember))]
  ELSE item

\* Variant of Punish: an already limited bucket is extended whatever
\* settings.strict says.
PunishAlwaysExtends(settings, item, t) ==
  IF Geq(item.count, settings.limit)
  THEN IF item.limited
       THEN [item EXCEPT !.end = Plus(t, settings.punishment)]
       ELSE [item EXCEPT !.limited = TRUE,
                         !.end = Plus(t, MathMax(settings.punishment, settings.remember))]
  ELSE item

\* Variant of Punish: a limited bucket whose end has passed is given its
\* capacity back in place.
PunishForgives(settings, item, t) ==
  IF item.limited /\ Geq(t, item.end)
  THEN [item EXCEPT !.limited = FALSE, !.count = 0,
                    !.end = Plus(t, settings.remember)]
  ELSE IF Geq(item.count, settings.limit)
  THEN IF item.limited
       THEN IF settings.strict
            THEN [item EXCEPT !.end = Plus(t, settings.punishment)]
            ELSE item
       ELSE [item EXCEPT !.limited = TRUE,
                         !.end = Plus(t, MathMax(settings.punishment, settings.remember))]
  ELSE item

\* The count >= limit branch of check().
Punish(settings, item, t) ==
  IF Geq(item.count, settings.limit)
  THEN IF item.limited
       THEN IF settings.strict
            THEN [item EXCEPT !.end = Plus(t, settings.punishment)]
            ELSE item
       ELSE [item EXCEPT !.limited = TRUE,
                         !.end = Plus(t, MathMax(settings.punishment, settings.remember))]
  ELSE item

\* RatelimitManager.check: the table after the call, the returned flag,
\* the X-Ratelimit-Remaining header it sets, and whether it threw:
\* settings.limit.toString() is a TypeError when limit is undefined.
\* The Collection is keyed by a fresh uuid per insertion, so it is modelled
\* as the sequence of its values in insertion order.
check(its, settings, c, rt, t) ==
  LET found == FindItem(its, c, rt)
      its1 == IF found = 0 THEN Append(its, NewItem(settings, c, rt, t)) ELSE its
      i == IF found = 0 THEN Len(its1) ELSE found
      item == Punish(settings, its1[i], t)
  IN [items |-> [its1 EXCEPT ![i] = item],
      limited |-> item.limited,
      remaining |-> Minus(settings.limit, item.count),
      threw |-> settings.limit = Undefined]

\* Variant of increase: an admission counts twice.
increaseCountsTwice(its, settings, c, rt) ==
  LET i == FindItem(its, c, rt)
  IN IF i # 0 /\ Gt(settings.limit, its[i].count)
     THEN [its EXCEPT ![i].count = @ + 2]
     ELSE its

\* RatelimitManager.increase
increase(its, settings, c, rt) ==
  LET i == FindItem(its, c, rt)
  IN IF i # 0 /\ Gt(settings.limit, its[i].count)
     THEN [its EXCEPT ![i].count = @ + 1]
     ELSE its

\* Variant of cleanup: a bucket whose end is the current instant is kept.
cleanupKeepsDue(its, t) == SelectSeq(its, LAMBDA item : Geq(item.end, t))

\* RatelimitManager.cleanup: this.items.filter(item => item.end > Date.now());
\* Collection.filter keeps insertion order.
cleanup(its, t) == SelectSeq(its, LAMBDA item : Gt(item.end, t))

(* ------------------------------ state ---------------------------------- *)
VARIABLES
  now,      \* Date.now()
  swept,    \* observation: the sweep timer has fired at the current instant
  cfg,      \* the resolved rate-limit settings (route.ratelimitsFor)
  env,      \* the deployment: what the application's middleware entries
            \* and handler may do, the routes and requests it sees, the
            \* client addresses, the number of requests in flight at a time
  items,    \* RatelimitManager.items, in insertion order
  running,  \* the request whose synchronous code is executing, 0 = idle
  pc,       \* position of each request in the pipeline
  req,      \* what the pipeline still reads of the request: ip, method,
            \* url, the principal its token resolves to, api.route, api.params
  auth,     \* api.authentication ("" = undefined)
  mwIdx,    \* index of the next middleware entry in executeAll
  sent,     \* the calls made on the response writer: their status codes
  exit,     \* how the pipeline function ended
  obs,      \* observation, per request: the stages run, the middleware
            \* entries and handlers invoked, the calls of server.onError,
            \* whether a middleware entry called api.send or api.throw,
            \* the settings the gate read and the payload it answered
            \* with, the inputs of authorize (until the next step of the
            \* request), the calls of the authentication resolver and the
            \* real errors user code threw, the schema and the raw inputs
            \* validateSchema found (until the handler is done), the
            \* categories in the error payload and whether the marker
            \* header was set, and the methods the route file has
            \* handlers for with the handler dispatch chose, the file
            \* paths of the middleware entries in the order they ran, the
            \* entries whose promise is pending and whether an entry was
            \* called while another was pending,
            \* and, from the check to the admit or the 429, the
            \* X-Ratelimit-Remaining header the check has set
  hist      \* observation, per bucket key: the checks seen and the requests
            \* admitted by the key's current bucket, and, until the next
            \* request of the key has passed the limiter, how the sweep
            \* found the bucket it removed

vars == <<now, swept, cfg, env, items, running, pc, req, auth, mwIdx, sent, exit,
          obs, hist>>

\* The bucket keys the requests of the deployment can produce.
EnvKeys ==
  (env.ips \cup (env.tokens \cap Principals) \cup {"global"})
    \X (env.methods
          \X ({env.table[i].path : i \in 1..Len(env.table)} \cup env.urls
                \cup {<<>>}))

Configs ==
  [limit : 0..MaxLimit, remember : 1..MaxRemember, punishment : 0..MaxPunish,
   strict : BOOLEAN, scope : {"ip"}, type : {"endpoint"}]

\* The rate-limit settings of the README's example configuration.
ReadmeConfig ==
  [limit |-> 1, remember |-> 1, punishment |-> 1, strict |-> FALSE,
   scope |-> "ip", type |-> "endpoint"]

(* ------------------------------ middleware ----------------------------- *)
\* Character codes of the separator path.join puts between a directory and
\* an entry, and of the dot that starts the suffix of a middleware file.
Slash == 47

Dot == 46

\* Names in the routes directory: "a", "a-b", "b".
MwNames == { <<97>>, <<97, 45, 98>>, <<98>> }

\* A middleware file (fs.Dirent with isFile) named name plus suffix.
MwFile(name) ==
  [name |-> name \o <<Dot>>, isDirectory |-> FALSE, entries |-> <<>>]

\* A directory holding one middleware file "m".
MwDir(name) ==
  [name |-> name, isDirectory |-> TRUE, entries |-> << MwFile(<<109>>) >>]

\* path.join(dir, entry.name), relative to the routes directory
join(dir, name) == IF dir = <<>> THEN name ELSE dir \o <<Slash>> \o name

\* findFilesRecursive over the entries of dir in the order readdirSync
\* lists them: depth first, a directory's files in place of the directory.
RECURSIVE findFilesRecursive(_, _)
findFilesRecursive(dir, entries) ==
  IF entries = <<>> THEN <<>>
  ELSE LET entry == Head(entries)
           fullPath == join(dir, entry.name)
       IN (IF entry.isDirectory
           THEN findFilesRecursive(fullPath, entry.entries)
           ELSE <<fullPath>>)
          \o findFilesRecursive(dir, Tail(entries))

\* a < b for strings, by character codes
RECURSIVE Less(_, _)
Less(a, b) ==
  IF b = <<>> THEN FALSE
  ELSE IF a = <<>> THEN TRUE
  ELSE IF Head(a) # Head(b) THEN Head(a) < Head(b)
  ELSE Less(Tail(a), Tail(b))

\* MiddlewareManager.init: the file paths of the entries in the order
\* executeAll runs them, which is the order items.set inserted them.
MiddlewareManagerInit(tree) == findFilesRecursive(<<>>, tree)

\* Listings of a routes directory with NumMw middleware files, directly in
\* it or one directory down, in any order readdirSync may return.
MwTrees ==
  {t \in [1..NumMw -> {MwFile(n) : n \in MwNames} \cup {MwDir(n) : n \in MwNames}] :
     \A i, j \in 1..NumMw : i # j => t[i].name # t[j].name}

\* A routes directory with NumMw middleware files "a", "b", ... in it.
FlatTree == [i \in 1..NumMw |-> MwFile(<<96 + i>>)]

(* --------------------------- schema validation ------------------------- *)
\* The categories of input API.validateSchema judges.
Categories == {"body", "params", "query", "files"}

\* SchemaDefinition: params for the whole route; per method query, and for
\* every method but GET body and files. The fields tell which schemas the
\* definition has.
Schemas ==
  [params : BOOLEAN, GET : SUBSET {"query"},
   POST : SUBSET {"query", "body", "files"}]

\* route.schema undefined
NoSchema == [params |-> FALSE, GET |-> {}, POST |-> {}]

\* A schema file that only defines params.
ParamsSchema == [params |-> TRUE, GET |-> {}, POST |-> {}]

\* The raw values of the categories as the resolving middleware binds them
\* to the request: "1" is a text every schema parses (to the number n1),
\* "x" one that no schema accepts.
RawInputs == [Categories -> {"1", "x"}]

\* schema.safeParse(value): the coerced value, or failure.
safeParse(value) ==
  IF value = "1" THEN [success |-> TRUE, data |-> "n1"]
  ELSE [success |-> FALSE, data |-> ""]

\* The categories the code validates for a request of the method.
validated(method, schema) ==
  {c \in {"body", "files"} : method # "GET" /\ c \in schema[method]}
    \cup {c \in {"params"} : schema.params}
    \cup {c \in {"query"} : c \in schema[method]}

\* Variants of validateSchema: reports only one failing category; leaves
\* the raw values bound.
validateSchemaFirstOnly(method, schema, bound) ==
  LET failed == {c \in validated(method, schema) : ~safeParse(bound[c]).success}
  IN [errors |-> IF failed = {} THEN {} ELSE {CHOOSE c \in failed : TRUE},
      bound |-> [c \in Categories |->
                   IF c \in validated(method, schema) \ failed
                   THEN safeParse(bound[c]).data ELSE bound[c]]]

validateSchemaKeepsRaw(method, schema, bound) ==
  [errors |-> {c \in validated(method, schema) : ~safeParse(bound[c]).success},
   bound |-> bound]

\* API.validateSchema: the categories with an entry in the returned errors,
\* and the values bound to the request afterwards.
validateSchema(method, schema, bound) ==
  [errors |-> {c \in validated(method, schema) : ~safeParse(bound[c]).success},
   bound |-> [c \in Categories |->
                IF c \in validated(method, schema) /\ safeParse(bound[c]).success
                THEN safeParse(bound[c]).data ELSE bound[c]]]

\* Of the raw inputs the validation does not read, one value is enough.
Supplied(raw, method, schema) ==
  \A c \in Categories \ validated(method, schema) : raw[c] = "1"

(* ------------------------------- handlers ------------------------------- *)
\* Variant of handlerFor: any handler the route file exports.
handlerOfAnyMethod(file, method) ==
  IF file = {} THEN "none" ELSE CHOOSE m \in file : method \in file => m = method

\* route.file[req.method], where file is the set of methods the route file
\* exports a handler for.
handlerFor(file, method) ==
  IF method \in file THEN method ELSE "none"

(* ------------------------------- requests ------------------------------- *)
\* The request before its inputs are read.
NoInputs == [c \in Categories |-> ""]

\* api.route of a request that resolved to no route
NoRoute == [path |-> <<>>, file |-> <<>>, reserved |-> FALSE, disabled |-> FALSE]

NoReq == [ip |-> "", method |-> "", url |-> <<>>, token |-> "",
          route |-> NoRoute, params |-> {}, bound |-> NoInputs]

\* No call of API.authorize.
NoScenario ==
  [overwrite |-> "", owResult |-> "", token |-> FALSE, unauthed |-> FALSE,
   resolverAsync |-> FALSE, resolved |-> ""]

\* route.settingsFor(method) as the gate reads it: disabled, and moved
\* ("" = not set, else the value the route file gives it).
NoGate == [disabled |-> FALSE, moved |-> ""]

NoObs == [ran |-> <<>>, mwRuns |-> 0, handlerRuns |-> 0, reported |-> 0,
          mwSent |-> FALSE, remaining |-> Undefined,
          settings |-> NoGate, data |-> "",
          authIn |-> NoScenario, resolverCalls |-> 0, faults |-> 0,
          schema |-> NoSchema, raw |-> NoInputs, errors |-> {},
          marker |-> FALSE, file |-> {}, handler |-> "", mwOrder |-> <<>>,
          mwActive |-> {}, overlap |-> FALSE]
NoHist == [checks |-> 0, admitted |-> 0, was |-> ""]

\* Variant of StageOrder: the rate limiter runs ahead of the gate.
StageOrderLimiterFirst ==
  <<"check", "admit", "gate", "authorize", "middleware", "validate", "dispatch">>

\* The stages of the pipeline, in the order of the code.
StageOrder ==
  <<"gate", "check", "admit", "authorize", "middleware", "validate", "dispatch">>

(* ------------------------- user code behaviours ------------------------ *)
\* What a middleware entry or a handler may do: the call it makes on the API
\* ("send" = api.send or api.throw, "status" = api.status, "none") and how
\* it leaves: "return" (returns normally; after send this means it caught
\* the stop signal itself), "kill" (the stop signal thrown by send leaves
\* it), "error" (it throws a real error).
UserBehaviours ==
  { [call |-> "none",   leave |-> "return"],
    [call |-> "none",   leave |-> "error"],
    [call |-> "send",   leave |-> "kill"],
    [call |-> "send",   leave |-> "return"],
    [call |-> "status", leave |-> "return"],
    [call |-> "status", leave |-> "error"] }

\* The status user code passes to api.send, api.throw or api.status.
UserStatuses == {200, UNAUTHORIZED}

\* The calls on the response writer after user code b ran with status code.
UserWritten(r, b, code) ==
  IF b.call = "none" THEN sent[r] ELSE Append(sent[r], code)

InitCommon ==
  /\ now = 0
  /\ swept = FALSE
  /\ items = <<>>
  /\ running = 0
  /\ pc = [r \in Slots |-> "idle"]
  /\ req = [r \in Slots |-> NoReq]
  /\ auth = [r \in Slots |-> ""]
  /\ mwIdx = [r \in Slots |-> 1]
  /\ sent = [r \in Slots |-> <<>>]
  /\ exit = [r \in Slots |-> ""]
  /\ obs = [r \in Slots |-> NoObs]
  /\ hist = [k \in EnvKeys |-> NoHist]

\* Any user code, any route settings and any request, one at a time, under
\* the README's rate limits; route files with handlers for any methods and
\* a params schema.
Init ==
  /\ cfg = ReadmeConfig
  /\ env = [mw |-> UserBehaviours, handler |-> UserBehaviours,
            statuses |-> UserStatuses,
            routes |-> "any", table |-> RouteItems, urls |-> DefaultUrls,
            methods |-> {"GET"}, tokens |-> {"", "bad", "u1"},
            ips |-> {"ip1"}, inFlight |-> 1,
            schemas |-> {ParamsSchema}, handlers |-> SUBSET Methods,
            mwFiles |-> MiddlewareManagerInit(FlatTree)]
  /\ InitCommon

\* Any rate-limit settings, requests of one client in flight together, on
\* an open route (enabled, not moved, unauthenticated access allowed, valid
\* input, a handler that answers) behind middleware that passes.
InitLimiter ==
  /\ cfg \in Configs
  /\ env = [mw |-> {[call |-> "none", leave |-> "return"]},
            handler |-> {[call |-> "send", leave |-> "kill"]},
            statuses |-> {200},
            routes |-> "open", table |-> RouteItems, urls |-> DefaultUrls,
            methods |-> {"GET"}, tokens |-> {""},
            ips |-> {"ip1"}, inFlight |-> 2,
            schemas |-> {NoSchema}, handlers |-> {Methods},
            mwFiles |-> MiddlewareManagerInit(FlatTree)]
  /\ InitCommon

\* The README's rate limits, requests of several clients in flight
\* together, on an open route.
InitKeys ==
  /\ cfg = ReadmeConfig
  /\ env = [mw |-> {[call |-> "none", leave |-> "return"]},
            handler |-> {[call |-> "send", leave |-> "kill"]},
            statuses |-> {200},
            routes |-> "open", table |-> RouteItems, urls |-> DefaultUrls,
            methods |-> {"GET"}, tokens |-> {""},
            ips |-> IPs, inFlight |-> 2,
            schemas |-> {NoSchema}, handlers |-> {Methods},
            mwFiles |-> MiddlewareManagerInit(FlatTree)]
  /\ InitCommon

\* ratelimitsFor of a route when neither the configuration nor the route
\* file nor the method sets rate limits: the empty object. An undefined
\* strict is falsy; an undefined scope or type takes the default branch.
Unconfigured ==
  [limit |-> Undefined, remember |-> Undefined, punishment |-> Undefined,
   strict |-> FALSE, scope |-> "", type |-> ""]

\* Rate limits of every scope, and of every type.
ScopeConfigs ==
  [limit : 1..MaxLimit, remember : {1}, punishment : {1}, strict : {FALSE},
   scope : {"ip", "authentication", "global"}, type : {"endpoint"}]

TypeConfigs ==
  [limit : {1}, remember : {1}, punishment : {1}, strict : {FALSE},
   scope : {"ip"}, type : {"endpoint", "parameter"}]

\* A deployment with an open route behind middleware that passes, serving
\* the given requests one at a time.
OpenEnv(table, urls, methods, tokens, ips) ==
  [mw |-> {[call |-> "none", leave |-> "return"]},
   handler |-> {[call |-> "send", leave |-> "kill"]},
   statuses |-> {200},
   routes |-> "open", table |-> table, urls |-> urls,
   methods |-> methods, tokens |-> tokens, ips |-> ips, inFlight |-> 1,
   schemas |-> {NoSchema}, handlers |-> {Methods},
   mwFiles |-> MiddlewareManagerInit(FlatTree)]

\* Requests one at a time on an open route: callers with and without
\* tokens from several addresses under every scope; several parameter
\* values, or several methods, under every type; a route without any rate
\* limits.
InitSettings ==
  /\ \/ /\ cfg \in ScopeConfigs
        /\ env = OpenEnv(RouteItems, {<<"a", "1">>}, {"GET"},
                         {""} \cup Principals, IPs)
     \/ /\ cfg \in TypeConfigs
        /\ \/ env = OpenEnv(RouteItems, {<<"a", "1">>, <<"a", "2">>}, {"GET"},
                            {""}, {"ip1"})
           \/ env = OpenEnv(RouteItems, {<<"a", "1">>}, Methods,
                            {""}, {"ip1"})
     \/ /\ cfg = Unconfigured
        /\ env = OpenEnv(RouteItems, {<<"a", "1">>}, {"GET"}, {""}, {"ip1"})
  /\ InitCommon

\* The listings of the user routes directory: up to MaxFiles files, in
\* the order findFilesRecursive returns them.
FileLists ==
  UNION {{f \in [1..n -> UserFiles] : \A i, j \in 1..n : i # j => f[i] # f[j]}
           : n \in 0..MaxFiles}

\* The route table Server.init builds from any listing of user route files
\* next to the internal routes; requests one at a time, under the README's
\* rate limits.
InitRoutes ==
  /\ cfg = ReadmeConfig
  /\ \E files \in FileLists :
       env = [mw |-> {[call |-> "none", leave |-> "return"]},
              handler |-> {[call |-> "send", leave |-> "kill"]},
              statuses |-> {200},
              routes |-> "open",
              files |-> files,
              table |-> ServerInit(files, << <<"sys">> >>),
              urls |-> {<<"sys">>, <<"a">>, <<"zzz">>, <<"b", "1">>},
              methods |-> {"GET"}, tokens |-> {""},
              ips |-> {"ip1"}, inFlight |-> 1,
              schemas |-> {NoSchema}, handlers |-> {Methods},
              mwFiles |-> MiddlewareManagerInit(FlatTree)]
  /\ InitCommon

\* Every schema a route can have and every combination of valid and invalid
\* inputs, on an open route with a handler for every method; requests one
\* at a time, under the README's rate limits.
InitValidation ==
  /\ cfg = ReadmeConfig
  /\ env = [OpenEnv(RouteItems, {<<"a", "1">>}, Methods, {""}, {"ip1"})
              EXCEPT !.schemas = Schemas]
  /\ InitCommon

\* Every listing of the routes directory with its middleware files, the
\* entries passing every request on to an open route; requests one at a
\* time, under the README's rate limits.
InitMiddleware ==
  /\ cfg = ReadmeConfig
  /\ \E tree \in MwTrees :
       env = [OpenEnv(RouteItems, {<<"a", "1">>}, {"GET"}, {""}, {"ip1"})
                EXCEPT !.mwFiles = MiddlewareManagerInit(tree)]
  /\ InitCommon

\* The values of settings.disabled the deployment sees.
Flags == IF env.routes = "open" THEN {FALSE} ELSE BOOLEAN

\* The values of settings.moved: not set, or where the route moved to.
Destinations == IF env.routes = "open" THEN {""} ELSE {"", "/new"}

(* ---------------------------- API helpers ------------------------------ *)
\* this.res.status(status).json(response) / res.sendStatus(code): one call
\* on the response writer.
Written(r, code) == [sent EXCEPT ![r] = Append(@, code)]

\* The pipeline function of request r ends: "returned" (resolved),
\* "API_KILL" (the stop signal left it) or "error" (a real error left it).
Ends(r, how) ==
  /\ pc' = [pc EXCEPT ![r] = "done"]
  /\ exit' = [exit EXCEPT ![r] = how]
  /\ running' = 0

\* api.throw(status) called by the pipeline itself: API.send writes the
\* response and throws 'API_KILL', which nothing around the call catches.
ApiThrow(r, status) ==
  /\ sent' = Written(r, status)
  /\ Ends(r, "API_KILL")

\* The order in which the pipeline function runs its stages.
StageAfter(stage) ==
  LET i == CHOOSE k \in 1..(Len(StageOrder) - 1) : StageOrder[k] = stage
  IN StageOrder[i + 1]

\* The request goes on to the next stage in the same task.
Proceeds(r, stage) ==
  /\ pc' = [pc EXCEPT ![r] = StageAfter(stage)]
  /\ running' = r
  /\ UNCHANGED <<sent, exit>>

\* Variant of SameTask: the request yields to the event loop after its check.
YieldsAfterCheck(r) == 0

\* ratelimits.increase(api) follows ratelimits.check(api) with no await in
\* between: the request keeps the event loop.
SameTask(r) == r

\* Variants of IsStopSignal: every error counts as the stop signal; none does.
EverythingStops(leave) == TRUE

NothingStops(leave) == FALSE

\* typeof error == 'string' && error == 'API_KILL'
IsStopSignal(leave) == leave = "kill"

\* A request may take a step when its code is running or, resuming from an
\* await, when the event loop is idle.
CanStep(r) == running \in {0, r}

Ran(r, stage) == [obs EXCEPT ![r].ran = Append(@, stage)]

ClientKey(r) == getClientIdentifier(cfg, req[r].ip, auth[r])
RouteKey(r) == getRouteIdentifier(cfg, req[r].method, req[r].route.path, req[r].url)

(* -------------------------------- gate --------------------------------- *)
\* Variant of gate: moved is looked at before disabled.
gateMovedFirst(settings) ==
  IF settings.moved # ""
  THEN [passes |-> FALSE, status |-> MOVED_PERMANENTLY, data |-> settings.moved]
  ELSE IF settings.disabled
  THEN [passes |-> FALSE, status |-> SERVICE_UNAVAILABLE, data |-> ""]
  ELSE [passes |-> TRUE, status |-> 200, data |-> ""]

\* if (settings.disabled) api.throw(503);
\* if (settings.moved) api.throw(301, { data: settings.moved });
\* what the pipeline answers at the gate, and with which payload.
gate(settings) ==
  IF settings.disabled
  THEN [passes |-> FALSE, status |-> SERVICE_UNAVAILABLE, data |-> ""]
  ELSE IF settings.moved # ""
  THEN [passes |-> FALSE, status |-> MOVED_PERMANENTLY, data |-> settings.moved]
  ELSE [passes |-> TRUE, status |-> 200, data |-> ""]

(* ---------------------------- authorization ---------------------------- *)
\* The inputs of API.authorize: the route's authOverwrite (absent, a
\* function returning a value, a function returning a Promise) and what it
\* yields; whether a token is sent; settings.unauthed; the resolver.
OpenScenarios ==
  [overwrite : {"none"}, owResult : {"truthy"}, token : BOOLEAN,
   unauthed : {TRUE}, resolverAsync : BOOLEAN, resolved : Principals \cup {""}]

AuthScenarios ==
  [overwrite : {"none", "sync", "async"},
   owResult : {"truthy", "falsy", "throws"},
   token : BOOLEAN,
   unauthed : BOOLEAN,
   resolverAsync : BOOLEAN,
   resolved : Principals \cup {"", "throws"}]

\* API.authorize: outcome "pass" | "reject" (this.throw(UNAUTHORIZED)) |
\* "error" (a real error leaves authorize); the principal stored; whether a
\* pending Promise was awaited (the request yields to the event loop).
authorizeIgnoresUnauthed(s) ==
  IF ~s.token \/ s.resolved = ""
  THEN [outcome |-> "reject", principal |-> "", awaited |-> FALSE,
        called |-> s.token]
  ELSE [outcome |-> "pass", principal |-> s.resolved, awaited |-> s.resolverAsync,
        called |-> TRUE]

\* The last field tells whether server.authenticationMethod was called.
authorize(s) ==
  IF s.overwrite = "sync"
  THEN [outcome |-> CASE s.owResult = "throws" -> "error"
                       [] s.owResult = "falsy" -> "reject"
                       [] OTHER -> "pass",
        principal |-> "", awaited |-> FALSE, called |-> FALSE]
  ELSE IF s.overwrite = "async"
  THEN \* passedAuthOverwrite is the Promise object: awaited, then tested
       \* with !passedAuthOverwrite, which is false for any object.
       [outcome |-> IF s.owResult = "throws" THEN "error" ELSE "pass",
        principal |-> "", awaited |-> TRUE, called |-> FALSE]
  ELSE IF ~s.token
  THEN [outcome |-> IF ~s.unauthed THEN "reject" ELSE "pass",
        principal |-> "", awaited |-> FALSE, called |-> FALSE]
  ELSE IF s.resolved = "throws"
  THEN [outcome |-> "error", principal |-> "", awaited |-> s.resolverAsync,
        called |-> TRUE]
  ELSE IF s.resolved = ""
  THEN [outcome |-> IF ~s.unauthed THEN "reject" ELSE "pass",
        principal |-> "", awaited |-> s.resolverAsync, called |-> TRUE]
  ELSE [outcome |-> "pass", principal |-> s.resolved, awaited |-> s.resolverAsync,
        called |-> TRUE]

\* Of the inputs API.authorize does not read in a scenario one value is
\* enough: what an absent override yields; with an override, the route as
\* one that requires authentication and a resolver that answers at once;
\* without a token, the resolver.
Relevant(s) ==
  /\ s.overwrite = "none" => s.owResult = "truthy"
  /\ s.overwrite # "none" => (~s.unauthed /\ ~s.resolverAsync /\ s.resolved # "throws")
  /\ ~s.token => ~s.resolverAsync

\* The scenario agrees with the request: a token is sent or not, and the
\* resolver yields the principal of a valid token, nothing for any other
\* token, or throws.
Presents(s, token) ==
  /\ s.token = (token # "")
  /\ s.resolved \in (IF token \in Principals THEN {token, "throws"}
                     ELSE IF token = "" THEN {""}
                     ELSE {"", "throws"})

(* ------------------------------ actions -------------------------------- *)
InFlight == Cardinality({s \in Slots : pc[s] # "idle"})

\* A request arrives: the resolving middleware creates the API object and
\* answers 404 when no route matches, else hands over to the pipeline.
\* Slots only name the requests in flight, so a request takes the lowest
\* free one.
Arrive(r) ==
  /\ pc[r] = "idle"
  /\ \A s \in 1..(r - 1) : pc[s] # "idle"
  /\ running = 0
  /\ InFlight < env.inFlight
  /\ \E ip \in env.ips, m \in env.methods, url \in env.urls, token \in env.tokens :
       LET resolved == resolveUrl(env.table, url) IN
       IF ~resolved.found
       THEN /\ ApiThrow(r, NOT_FOUND)
            /\ req' = [req EXCEPT ![r] = [NoReq EXCEPT !.url = url]]
       ELSE /\ req' = [req EXCEPT ![r] = [ip |-> ip, method |-> m, url |-> url,
                                          token |-> token,
                                          route |-> resolved.route,
                                          params |-> resolved.params]]
            /\ pc' = [pc EXCEPT ![r] = StageOrder[1]]
            /\ running' = r
            /\ UNCHANGED <<sent, exit>>
  /\ UNCHANGED <<now, swept, cfg, env, items, auth, mwIdx, obs, hist>>

\* settings.disabled / settings.moved
Gate(r) ==
  /\ pc[r] = "gate"
  /\ CanStep(r)
  /\ \E disabled \in Flags, moved \in Destinations :
       LET settings == [disabled |-> disabled \/ req[r].route.disabled,
                        moved |-> moved]
           answer == gate(settings)
       IN /\ obs' = [obs EXCEPT ![r].ran = Append(@, "gate"),
                                 ![r].settings = settings,
                                 ![r].data = answer.data]
          /\ IF answer.passes THEN Proceeds(r, "gate")
             ELSE ApiThrow(r, answer.status)
  /\ UNCHANGED <<now, swept, cfg, env, items, req, auth, mwIdx, hist>>

\* if (this.ratelimits.check(api)) api.throw(TOO_MANY_REQUESTS)
Check(r) ==
  /\ pc[r] = "check"
  /\ CanStep(r)
  /\ LET c == ClientKey(r)
         rt == RouteKey(r)
         fresh == FindItem(items, c, rt) = 0
         res == check(items, cfg, c, rt, now)
         seen == IF fresh THEN 0 ELSE hist[<<c, rt>>].checks
     IN /\ items' = res.items
        /\ hist' = [hist EXCEPT ![<<c, rt>>] =
                      [checks |-> Min(seen + 1, cfg.limit + 2),
                       admitted |-> IF fresh THEN 0 ELSE @.admitted,
                       was |-> IF res.limited THEN "" ELSE @.was]]
        /\ obs' = [obs EXCEPT ![r].ran = Append(@, "check"),
                              ![r].remaining = IF res.threw THEN @
                                               ELSE res.remaining]
        /\ IF res.threw
           THEN /\ Ends(r, "error")
                /\ UNCHANGED sent
           ELSE IF res.limited
           THEN ApiThrow(r, TOO_MANY_REQUESTS)
           ELSE /\ pc' = [pc EXCEPT ![r] = StageAfter("check")]
                /\ running' = SameTask(r)
                /\ UNCHANGED <<sent, exit>>
  /\ UNCHANGED <<now, swept, cfg, env, req, auth, mwIdx>>

\* this.ratelimits.increase(api)
Increase(r) ==
  /\ pc[r] = "admit"
  /\ CanStep(r)
  /\ obs' = [obs EXCEPT ![r].ran = Append(@, "admit"),
                        ![r].remaining = Undefined]
  /\ items' = increase(items, cfg, ClientKey(r), RouteKey(r))
  /\ hist' = [hist EXCEPT ![<<ClientKey(r), RouteKey(r)>>] =
                [@ EXCEPT !.admitted = Min(@ + 1, cfg.limit + 2), !.was = ""]]
  /\ req' = [req EXCEPT ![r] = [NoReq EXCEPT !.token = req[r].token,
                                              !.method = req[r].method,
                                              !.route = req[r].route]]
  /\ Proceeds(r, "admit")
  /\ UNCHANGED <<now, swept, cfg, env, auth, mwIdx>>

\* await api.authorize()
Authorize(r) ==
  /\ pc[r] = "authorize"
  /\ CanStep(r)
  /\ \E s \in (IF env.routes = "open" THEN OpenScenarios ELSE AuthScenarios) :
       /\ Presents(s, req[r].token)
       /\ Relevant(s)
       /\ obs' = [obs EXCEPT ![r].ran = Append(@, "authorize"),
                              ![r].authIn = s,
                              ![r].resolverCalls =
                                 IF authorize(s).called THEN @ + 1 ELSE @]
       /\ LET a == authorize(s) IN
          CASE a.outcome = "reject" ->
                 /\ ApiThrow(r, UNAUTHORIZED)
                 /\ UNCHANGED <<auth, mwIdx>>
            [] a.outcome = "error" ->
                 /\ Ends(r, "error")
                 /\ UNCHANGED <<auth, mwIdx, sent>>
            [] OTHER ->
                 /\ auth' = [auth EXCEPT ![r] = a.principal]
                 /\ mwIdx' = [mwIdx EXCEPT ![r] = 1]
                 /\ pc' = [pc EXCEPT ![r] = StageAfter("authorize")]
                 /\ running' = IF a.awaited THEN 0 ELSE r
                 /\ UNCHANGED <<sent, exit>>
  /\ UNCHANGED <<now, swept, cfg, env, items, req, hist>>

\* Variant of awaited: executeAll calls the next entry at once.
neverAwaited(isPromise) == FALSE

\* if (result instanceof Promise) await result
awaited(isPromise) == isPromise

\* The entry at mwIdx[r] completed with behaviour b: the chain goes on, or
\* the try/catch the pipeline puts around executeAll ends the request.
EntryDone(r, b, code, seen) ==
  LET o == [seen EXCEPT
              !.mwSent = @ \/ b.call = "send",
              !.faults = IF b.leave = "error" THEN @ + 1 ELSE @]
  IN
  IF b.leave = "return"
  THEN /\ sent' = [sent EXCEPT ![r] = UserWritten(r, b, code)]
       /\ mwIdx' = [mwIdx EXCEPT ![r] = @ + 1]
       /\ pc' = [pc EXCEPT ![r] = IF mwIdx[r] = NumMw
                                  THEN StageAfter("middleware")
                                  ELSE "middleware"]
       /\ running' = r
       /\ obs' = [obs EXCEPT ![r] = o]
       /\ UNCHANGED exit
  ELSE IF IsStopSignal(b.leave)
  THEN /\ sent' = [sent EXCEPT ![r] = UserWritten(r, b, code)]
       /\ obs' = [obs EXCEPT ![r] = o]
       /\ Ends(r, "returned")
       /\ UNCHANGED mwIdx
  ELSE /\ sent' = [sent EXCEPT ![r] =
                     Append(UserWritten(r, b, code), INTERNAL_SERVER_ERROR)]
       /\ obs' = [obs EXCEPT ![r] = [o EXCEPT !.reported = @ + 1]]
       /\ Ends(r, "API_KILL")
       /\ UNCHANGED mwIdx

\* MiddlewareManager.executeAll calls the entry at mwIdx[r]: a synchronous
\* entry completes in the call; an asynchronous one returns a promise, which
\* executeAll awaits.
Middleware(r) ==
  /\ pc[r] = "middleware"
  /\ CanStep(r)
  /\ mwIdx[r] <= NumMw
  /\ \E isPromise \in BOOLEAN :
       LET o == [obs[r] EXCEPT
                   !.ran = IF mwIdx[r] = 1 THEN Append(@, "middleware") ELSE @,
                   !.authIn = NoScenario,
                   !.mwRuns = @ + 1,
                   !.mwOrder = Append(@, env.mwFiles[mwIdx[r]]),
                   !.overlap = @ \/ obs[r].mwActive # {},
                   !.mwActive = IF isPromise THEN @ \cup {mwIdx[r]} ELSE @]
       IN
       IF ~isPromise
       THEN \E b \in env.mw, code \in env.statuses : EntryDone(r, b, code, o)
       ELSE /\ obs' = [obs EXCEPT ![r] = o]
            /\ IF awaited(isPromise)
               THEN /\ pc' = [pc EXCEPT ![r] = "mwAwait"]
                    /\ running' = 0
                    /\ UNCHANGED mwIdx
               ELSE /\ mwIdx' = [mwIdx EXCEPT ![r] = @ + 1]
                    /\ pc' = [pc EXCEPT ![r] = IF mwIdx[r] = NumMw
                                               THEN StageAfter("middleware")
                                               ELSE @]
                    /\ running' = r
            /\ UNCHANGED <<sent, exit>>
  /\ UNCHANGED <<now, swept, cfg, env, items, req, auth, hist>>

\* The promise of the asynchronous entry at mwIdx[r] settles and executeAll
\* resumes.
MiddlewareSettled(r) ==
  /\ pc[r] = "mwAwait"
  /\ CanStep(r)
  /\ \E b \in env.mw, code \in env.statuses :
       EntryDone(r, b, code, [obs[r] EXCEPT !.mwActive = @ \ {mwIdx[r]}])
  /\ UNCHANGED <<now, swept, cfg, env, items, req, auth, hist>>

\* api.validateSchema() and the 400 answer
Validate(r) ==
  /\ pc[r] = "validate"
  /\ CanStep(r)
  /\ \E schema \in env.schemas, raw \in RawInputs :
       /\ Supplied(raw, req[r].method, schema)
       /\ LET res == validateSchema(req[r].method, schema, raw)
              hasErrors == res.errors # {}
          IN /\ req' = [req EXCEPT ![r].bound = res.bound]
             /\ obs' = [obs EXCEPT ![r].ran = Append(@, "validate"),
                                    ![r].schema = schema,
                                    ![r].raw = raw,
                                    ![r].errors = res.errors,
                                    ![r].marker = hasErrors]
             /\ IF hasErrors THEN ApiThrow(r, BAD_REQUEST)
                ELSE Proceeds(r, "validate")
  /\ UNCHANGED <<now, swept, cfg, env, items, auth, mwIdx, hist>>

\* if (handler) ... await handler(api) ... else api.throw(METHOD_NOT_ALLOWED)
Dispatch(r) ==
  /\ pc[r] = "dispatch"
  /\ CanStep(r)
  /\ \E file \in env.handlers, async \in BOOLEAN :
       LET handler == handlerFor(file, req[r].method) IN
       IF handler = "none"
       THEN /\ ApiThrow(r, METHOD_NOT_ALLOWED)
            /\ obs' = [obs EXCEPT ![r].ran = Append(@, "dispatch"),
                                  ![r].file = file,
                                  ![r].handler = handler]
       ELSE /\ obs' = [obs EXCEPT ![r].ran = Append(@, "dispatch"),
                                  ![r].file = file,
                                  ![r].handler = handler,
                                  ![r].handlerRuns = @ + 1]
            /\ pc' = [pc EXCEPT ![r] = "handler"]
            /\ running' = IF async THEN 0 ELSE r
            /\ UNCHANGED <<sent, exit>>
  /\ UNCHANGED <<now, swept, cfg, env, items, req, auth, mwIdx, hist>>

\* The handler completes; the try/catch around await handler(api).
HandlerDone(r) ==
  /\ pc[r] = "handler"
  /\ CanStep(r)
  /\ \E b \in env.handler, code \in env.statuses :
       LET o == [obs[r] EXCEPT
                   !.faults = IF b.leave = "error" THEN @ + 1 ELSE @,
                   !.schema = NoSchema,
                   !.raw = NoInputs]
       IN
       IF b.leave = "return" \/ IsStopSignal(b.leave)
       THEN /\ sent' = [sent EXCEPT ![r] = UserWritten(r, b, code)]
            /\ Ends(r, "returned")
            /\ obs' = [obs EXCEPT ![r] = o]
       ELSE /\ sent' = [sent EXCEPT ![r] =
                          Append(UserWritten(r, b, code), INTERNAL_SERVER_ERROR)]
            /\ obs' = [obs EXCEPT ![r] = [o EXCEPT !.reported = @ + 1]]
            /\ Ends(r, "API_KILL")
  /\ req' = [req EXCEPT ![r].bound = NoInputs]
  /\ UNCHANGED <<now, swept, cfg, env, items, auth, mwIdx, hist>>

\* The transport is done with the request; its slot takes the next one.
Release(r) ==
  /\ pc[r] = "done"
  /\ pc' = [pc EXCEPT ![r] = "idle"]
  /\ req' = [req EXCEPT ![r] = NoReq]
  /\ auth' = [auth EXCEPT ![r] = ""]
  /\ mwIdx' = [mwIdx EXCEPT ![r] = 1]
  /\ sent' = [sent EXCEPT ![r] = <<>>]
  /\ exit' = [exit EXCEPT ![r] = ""]
  /\ obs' = [obs EXCEPT ![r] = NoObs]
  /\ UNCHANGED <<now, swept, cfg, env, items, running, hist>>

\* setInterval(() => this.cleanup(), 100): a timer task, run when the event
\* loop is idle.
Sweep ==
  /\ running = 0
  /\ items' = cleanup(items, now)
  /\ hist' = [k \in DOMAIN hist |->
                LET i == FindItem(items, k[1], k[2]) IN
                IF i # 0 /\ FindItem(items', k[1], k[2]) = 0
                THEN [checks |-> 0, admitted |-> 0,
                      was |-> IF items[i].limited THEN "limited" ELSE "open"]
                ELSE hist[k]]
  /\ swept' = TRUE
  /\ UNCHANGED <<now, cfg, env, running, pc, req, auth, mwIdx, sent, exit, obs>>

\* Time passes.
Tick ==
  /\ running = 0
  /\ now < MaxTime
  /\ now' = now + 1
  /\ swept' = FALSE
  /\ UNCHANGED <<cfg, env, items, running, pc, req, auth, mwIdx, sent, exit,
                 obs, hist>>

Next ==
  \/ \E r \in Slots : Arrive(r)
  \/ \E r \in Slots : Gate(r)
  \/ \E r \in Slots : Check(r)
  \/ \E r \in Slots : Increase(r)
  \/ \E r \in Slots : Authorize(r)
  \/ \E r \in Slots : Middleware(r)
  \/ \E r \in Slots : MiddlewareSettled(r)
  \/ \E r \in Slots : Validate(r)
  \/ \E r \in Slots : Dispatch(r)
  \/ \E r \in Slots : HandlerDone(r)
  \/ \E r \in Slots : Release(r)
  \/ Sweep
  \/ Tick

Spec == Init /\ [][Next]_vars

LimiterSpec == InitLimiter /\ [][Next]_vars

KeysSpec == InitKeys /\ [][Next]_vars

SettingsSpec == InitSettings /\ [][Next]_vars

ValidationSpec == InitValidation /\ [][Next]_vars

MiddlewareSpec == InitMiddleware /\ [][Next]_vars

RoutesSpec == InitRoutes /\ [][Next]_vars

\* Any rate limits with strict = false, requests of one client one after
\* the other on an open route.
InitLenient ==
  /\ cfg \in {c \in Configs : ~c.strict}
  /\ env = [mw |-> {[call |-> "none", leave |-> "return"]},
            handler |-> {[call |-> "send", leave |-> "kill"]},
            statuses |-> {200},
            routes |-> "open", table |-> RouteItems, urls |-> DefaultUrls,
            methods |-> {"GET"}, tokens |-> {""},
            ips |-> {"ip1"}, inFlight |-> 1,
            schemas |-> {NoSchema}, handlers |-> {Methods},
            mwFiles |-> MiddlewareManagerInit(FlatTree)]
  /\ InitCommon

(* ------------------------- settings resolution ------------------------- *)
\* A JavaScript object is a function from its own keys to their values; a
\* key can be present with the value undefined.
EmptyObject == [k \in {} |-> ""]

\* The fields of the settings record and of the rate-limit record the
\* layers are followed for, and the values a layer gives a field.
SettingFields == {"disabled", "moved"}
RatelimitFields == {"limit", "strict"}
LayerValues == {"a", "b", "undefined"}

\* Partial<...>: an object with any of the fields.
Layers(fields) == UNION {[present -> LayerValues] : present \in SUBSET fields}

\* What a route file exports as `settings` or `ratelimits`: route-level
\* fields, and under any method's name the fields for that method.
Layered(fields) ==
  {route @@ byMethod :
     route \in Layers(fields),
     byMethod \in UNION {[ms -> Layers(fields)] : ms \in SUBSET Methods}}

\* Variant of Spread: a key the earlier object has keeps its value.
SpreadKeepsFirst(a, b) ==
  [k \in DOMAIN a \cup DOMAIN b |-> IF k \in DOMAIN a THEN a[k] ELSE b[k]]

\* { ...a, ...b }: the own keys of both objects; the later object gives
\* the value of a key both have.
Spread(a, b) ==
  [k \in DOMAIN a \cup DOMAIN b |-> IF k \in DOMAIN b THEN b[k] ELSE a[k]]

\* this.file.settings && method ? this.file.settings[method] : {}
\* (method = "" is a call without method; spreading undefined adds nothing).
methodLayer(own, has, method) ==
  IF has /\ method # "" /\ method \in DOMAIN own THEN own[method] ELSE EmptyObject

\* Route.settingsFor
settingsFor(config, file, method) ==
  LET has == "settings" \in DOMAIN file
      own == IF has THEN file.settings ELSE EmptyObject
  IN Spread(Spread(config.defaults, own), methodLayer(own, has, method))

\* Route.ratelimitsFor
ratelimitsFor(config, file, method) ==
  LET has == "ratelimits" \in DOMAIN file
      own == IF has THEN file.ratelimits ELSE EmptyObject
  IN Spread(Spread(config.ratelimits, own), methodLayer(own, has, method))

\* Route files with settings, with rate limits, or with neither.
RouteFiles ==
  {[settings |-> o] : o \in Layered(SettingFields)}
    \cup {[ratelimits |-> o] : o \in Layered(RatelimitFields)}
    \cup {EmptyObject}

\* Any route file under a configuration that gives every field a default;
\* nothing has been resolved yet.
InitResolve ==
  /\ \E file \in RouteFiles :
       env = OpenEnv(RouteItems, {<<"a", "1">>}, Methods, {""}, {"ip1"})
               @@ [config |-> [defaults |-> [f \in SettingFields |-> "a"],
                               ratelimits |-> [f \in RatelimitFields |-> "a"]],
                   file |-> file]
  /\ cfg = env.config.ratelimits
  /\ InitCommon

\* const settings = route.settingsFor(api.method) in the pipeline and
\* api.route.ratelimitsFor(api.method) in the rate limiter, for a request
\* of any method, or for a call without method.
Resolve(r) ==
  /\ pc[r] = "idle"
  /\ \A s \in 1..(r - 1) : pc[s] # "idle"
  /\ running = 0
  /\ \E method \in Methods \cup {""} :
       /\ req' = [req EXCEPT ![r].method = method]
       /\ obs' = [obs EXCEPT ![r].ran = <<"gate">>,
                             ![r].settings = settingsFor(env.config, env.file, method)]
       /\ cfg' = ratelimitsFor(env.config, env.file, method)
  /\ UNCHANGED <<now, swept, env, items, running, pc, auth, mwIdx, sent, exit,
                 hist>>

ResolveNext == \E r \in Slots : Resolve(r)

ResolveSpec == InitResolve /\ [][ResolveNext]_vars

\* A request that is in the pipeline goes on: its synchronous code runs to
\* the end, a settled await is continued, a finished request is released.
Continues ==
  \E r \in Slots :
    \/ Gate(r) \/ Check(r) \/ Increase(r) \/ Authorize(r) \/ Middleware(r)
    \/ MiddlewareSettled(r) \/ Validate(r) \/ Dispatch(r) \/ HandlerDone(r)
    \/ Release(r)

\* The event loop: a task that has started is continued; the clock goes on
\* and the interval timer of the sweep fires whenever the loop gets idle,
\* however many requests arrive in between.
Scheduling ==
  /\ WF_vars(Continues)
  /\ SF_vars(Tick)
  /\ SF_vars(Sweep)

LenientSpec == InitLenient /\ [][Next]_vars /\ Scheduling


(* ------------------------- observation helpers ------------------------- *)
KeyOf(r) == <<ClientKey(r), RouteKey(r)>>

IndexOf(its, k) ==
  IF \E i \in 1..Len(its) : its[i].client = k[1] /\ its[i].route = k[2]
  THEN CHOOSE i \in 1..Len(its) : its[i].client = k[1] /\ its[i].route = k[2]
  ELSE 0

HasBucket(its, k) == IndexOf(its, k) # 0
Bucket(its, k) == its[IndexOf(its, k)]

\* Request r arrives in this step.
Arrives(r) == pc[r] = "idle" /\ pc'[r] # "idle"

\* Request r takes its rate-limit check / its admit in this step.
Checks(r) == pc[r] = "check" /\ pc'[r] # "check"
Admits(r) == pc[r] = "admit" /\ pc'[r] # "admit"

\* A stage of the pipeline starts for request r in this step.
StageRuns(r) == Len(obs'[r].ran) > Len(obs[r].ran)

IsPrefix(s, t) == Len(s) <= Len(t) /\ SubSeq(t, 1, Len(s)) = s

(* ------------------------------- claims -------------------------------- *)

(* C1: for every behaviour of the middleware entries and the handler, at   *)
(* most one response is written to the transport for a request.            *)
C1_AtMostOneResponse == \A r \in Slots : Len(sent[r]) <= 1

(* C2: every request that enters the pipeline ends Responded whatever its  *)
(* handler does: once the pipeline function of a request whose handler     *)
(* was invoked has ended, a response has been written.                     *)
C2_HandlerRequestResponded ==
  \A r \in Slots :
    (pc[r] = "done" /\ obs[r].handlerRuns = 1) => Len(sent[r]) >= 1

(* C3: the stages a request has run are a prefix of the fixed order gate,  *)
(* check, admit, authorize, middleware, validate, dispatch.                *)
C3_OrderKept == \A r \in Slots : IsPrefix(obs[r].ran, StageOrder)

(* C3: the stages run in the fixed order, and a stage runs only if every   *)
(* earlier stage ran and produced no response.                             *)
C3_StagesInOrderNoneAfterResponse ==
  /\ []C3_OrderKept
  /\ [][\A r \in Slots : StageRuns(r) => sent[r] = <<>>]_vars

(* C4: once a middleware entry has sent a response with api.send or        *)
(* api.throw, no later entry, validator or handler is invoked for the      *)
(* request, no further response is written and the error reporter is not   *)
(* called.                                                                 *)
C4_MiddlewareSendEndsRequest ==
  [][\A r \in Slots :
       (obs[r].mwSent /\ pc'[r] # "idle") =>
          (obs'[r] = obs[r] /\ sent'[r] = sent[r])]_vars

(* C5: for a key with limit L >= 1, the n-th check of a bucket's lifetime  *)
(* with n <= L reports not limited and the request is admitted (the       *)
(* bucket's count becomes the number of requests admitted so far); the     *)
(* (L+1)-th check reports limited and the request is answered 429.         *)
C5_FirstLAdmittedNextLimited ==
  [][\A r \in Slots :
       cfg.limit >= 1 =>
         /\ Checks(r) =>
              LET n == hist'[KeyOf(r)].checks IN
              /\ n <= cfg.limit => (pc'[r] = "admit" /\ sent'[r] = <<>>)
              /\ n = cfg.limit + 1 =>
                   (pc'[r] = "done" /\ sent'[r] = <<TOO_MANY_REQUESTS>>)
         /\ Admits(r) =>
              /\ pc'[r] = "authorize"
              /\ Bucket(items', KeyOf(r)).count = Bucket(items, KeyOf(r)).count + 1
              /\ Bucket(items', KeyOf(r)).count = hist'[KeyOf(r)].admitted]_vars

\* The (L+1)-th request of a bucket with limit L >= 2 was answered 429.
C5_Witness ==
  \E r \in Slots :
    /\ cfg.limit >= 2
    /\ pc[r] = "done" /\ sent[r] = <<TOO_MANY_REQUESTS>>
    /\ hist[KeyOf(r)].checks = cfg.limit + 1
    /\ hist[KeyOf(r)].admitted = cfg.limit

\* When the sweep has run, no bucket whose windowEnd has passed is left.
SweepRemovesDue ==
  (swept' /\ ~swept) => \A i \in 1..Len(items') : items'[i].end > now

\* The next request of a key whose bucket the sweep removed starts a fresh
\* bucket and is not limited.
StartsFresh(r) ==
  /\ ~HasBucket(items, KeyOf(r))
  /\ HasBucket(items', KeyOf(r))
  /\ Bucket(items', KeyOf(r)).count = 0
  /\ ~Bucket(items', KeyOf(r)).limited
  /\ pc'[r] = "admit"
  /\ sent'[r] = <<>>

(* C6 as stated: once windowEnd has passed and a sweep has run the bucket  *)
(* is gone, and the next request of the key starts a fresh bucket (count   *)
(* 0, limited false) and is not limited, also when the removed bucket was  *)
(* limited.                                                                *)
C6_FreshAfterSweep ==
  /\ [][SweepRemovesDue]_vars
  /\ [][\A r \in Slots :
          (Checks(r) /\ hist[KeyOf(r)].was # "") => StartsFresh(r)]_vars

(* C6 amended: the same for every key whose limit is at least 1.           *)
C6_FreshAfterSweepPositiveLimit ==
  /\ [][SweepRemovesDue]_vars
  /\ [][\A r \in Slots :
          (cfg.limit >= 1 /\ Checks(r) /\ hist[KeyOf(r)].was # "")
             => StartsFresh(r)]_vars

\* A request passed the check on a fresh bucket after the sweep removed the
\* key's limited bucket.
C6_Witness ==
  \E r \in Slots :
    /\ cfg.limit >= 1
    /\ pc[r] = "admit"
    /\ hist[KeyOf(r)].was = "limited"
    /\ Bucket(items, KeyOf(r)).count = 0

(* C7: check-then-admit is atomic: a request between its check and its     *)
(* admit holds the event loop, the next step that touches the table or     *)
(* moves a request through check or admit is its own admit, and a bucket   *)
(* admits at most `limit` requests during its lifetime.                    *)
C7_CheckThenAdmitAtomic ==
  /\ [](\A r \in Slots : pc[r] = "admit" => running = r)
  /\ [](\A k \in DOMAIN hist :
          /\ hist[k].admitted <= cfg.limit
          /\ HasBucket(items, k) => Bucket(items, k).count = hist[k].admitted)
  /\ [][\A r \in Slots :
          pc[r] = "admit" =>
            \/ Admits(r)
            \/ /\ items' = items
               /\ \A s \in Slots \ {r} :
                    pc[s] \in {"check", "admit"} => pc'[s] = pc[s]]_vars

\* A request is between its check and its admit while another request is
\* suspended in the middleware chain or in its handler.
C7_Witness ==
  \E r, s \in Slots :
    /\ r # s
    /\ pc[r] = "admit"
    /\ pc[s] \in {"mwAwait", "handler"}
    /\ cfg.limit >= 1

(* C8: the bucket table never holds two buckets of the same                *)
(* (clientKey, routeKey) pair.                                             *)
C8_OneBucketPerKey ==
  \A i, j \in 1..Len(items) :
    (items[i].client = items[j].client /\ items[i].route = items[j].route)
      => i = j

\* Two clients have a bucket each, one of them found again by a later check.
C8_Witness ==
  /\ Len(items) = 2
  /\ \E k \in DOMAIN hist : hist[k].checks >= 2

(* C9: with strict = true (and limit >= 1, punishment >= 1) a request     *)
(* checked while its bucket is already limited sets windowEnd to           *)
(* now + punishment, and that is never earlier than the bucket's windowEnd *)
(* before the request.                                                     *)
C9_StrictMovesWindowForward ==
  [][\A r \in Slots :
       (/\ cfg.strict
        /\ cfg.limit >= 1
        /\ cfg.punishment >= 1
        /\ Checks(r)
        /\ HasBucket(items, KeyOf(r))
        /\ Bucket(items, KeyOf(r)).limited)
         => /\ Bucket(items', KeyOf(r)).end = now + cfg.punishment
            /\ Bucket(items', KeyOf(r)).end >= Bucket(items, KeyOf(r)).end]_vars

\* With strict = false a limited bucket is left as it is by every step
\* except the sweep that removes it.
LimitedBucketKept ==
  \A k \in DOMAIN hist :
    (~cfg.strict /\ HasBucket(items, k) /\ Bucket(items, k).limited)
      => \/ HasBucket(items', k) /\ Bucket(items', k) = Bucket(items, k)
         \/ Sweep /\ Bucket(items, k).end <= now /\ ~HasBucket(items', k)

(* C10 as stated: with strict = false a limited bucket's windowEnd is not  *)
(* changed by later requests, and a request answered 429 leaves windowEnd, *)
(* count and limited of its bucket unchanged.                              *)
C10_LimitedRequestsChangeNothing ==
  /\ [][LimitedBucketKept]_vars
  /\ [][\A r \in Slots :
          (/\ ~cfg.strict
           /\ Checks(r)
           /\ HasBucket(items, KeyOf(r))
           /\ sent'[r] = <<TOO_MANY_REQUESTS>>)
            => Bucket(items', KeyOf(r)) = Bucket(items, KeyOf(r))]_vars

(* C10 amended: with strict = false a limited bucket's windowEnd is not    *)
(* changed by later requests; a request answered 429 that found its bucket *)
(* already limited leaves the bucket unchanged, and the request that trips *)
(* the limit sets limited and windowEnd = now + max(punishment, remember)  *)
(* and leaves count unchanged.                                             *)
C10_OnlyTrippingRequestChanges ==
  /\ [][LimitedBucketKept]_vars
  /\ [][\A r \in Slots :
          (/\ ~cfg.strict
           /\ Checks(r)
           /\ HasBucket(items, KeyOf(r))
           /\ sent'[r] = <<TOO_MANY_REQUESTS>>)
            => LET old == Bucket(items, KeyOf(r))
                   new == Bucket(items', KeyOf(r))
               IN IF old.limited
                  THEN new = old
                  ELSE new = [old EXCEPT
                                !.limited = TRUE,
                                !.end = now + Max(cfg.punishment, cfg.remember)]]_vars

\* With strict = false a request was answered 429 by a bucket that was
\* already limited when it arrived.
C10_Witness ==
  \E r \in Slots :
    /\ ~cfg.strict
    /\ cfg.limit >= 1
    /\ pc[r] = "done" /\ sent[r] = <<TOO_MANY_REQUESTS>>
    /\ hist[KeyOf(r)].checks = cfg.limit + 2

(* ------------------------------- C11 ----------------------------------- *)
\* The buckets other than the one with key k are left as they are.
OthersKept(k) ==
  \A i \in 1..Len(items) :
    <<items[i].client, items[i].route>> # k
      => (i <= Len(items') /\ items'[i] = items[i])

\* C11: with scope = ip the check and the admit of a request use the bucket
\* keyed by the request's own address and leave every other bucket as it
\* is, and the request is answered 429 exactly when its own address's
\* bucket is limited: the count and the limited flag of one address never
\* change because of requests of another address on the same route and
\* method.
C11_IpScopeSeparatesAddresses ==
  [][\A r \in Slots :
       (cfg.scope = "ip" /\ IsNumber(cfg.limit) /\ (Checks(r) \/ Admits(r)))
         => LET k == <<req[r].ip, RouteKey(r)>>
            IN /\ HasBucket(items', k)
               /\ OthersKept(k)
               /\ Checks(r) =>
                    (sent'[r] = <<TOO_MANY_REQUESTS>> <=> Bucket(items', k).limited)]_vars

\* Under scope = ip one address is limited on a route and method while
\* another address has a bucket there that is not.
C11_Witness ==
  /\ cfg.scope = "ip"
  /\ \E i, j \in 1..Len(items) :
       /\ items[i].client = "ip1" /\ items[j].client = "ip2"
       /\ items[i].route = items[j].route
       /\ items[i].limited /\ ~items[j].limited
       /\ items[j].count >= 1

(* ------------------------------- C12 ----------------------------------- *)
\* C12: with scope = global every bucket belongs to the one client
\* "global", so all callers of a route and method share a single bucket
\* whatever their address or principal; a request is admitted while fewer
\* than limit requests have been admitted by that bucket and, once limit
\* have been, the next request of any caller is answered 429.
C12_GlobalScopeSharesOneBucket ==
  /\ [](cfg.scope = "global"
          => /\ Len(items) <= 1
             /\ \A i \in 1..Len(items) : items[i].client = "global")
  /\ [][\A r \in Slots :
          (cfg.scope = "global" /\ Checks(r))
            => LET k == <<"global", RouteKey(r)>>
                   admitted == IF HasBucket(items, k) THEN hist[k].admitted ELSE 0
               IN sent'[r] = <<TOO_MANY_REQUESTS>> <=> admitted >= cfg.limit]_vars

\* Under scope = global a caller with a token at the second address is
\* answered 429 by the single bucket.
C12_Witness ==
  /\ cfg.scope = "global"
  /\ cfg.limit = MaxLimit
  /\ \E r \in Slots :
       /\ sent[r] = <<TOO_MANY_REQUESTS>>
       /\ req[r].ip = "ip2" /\ req[r].token = "u1"
       /\ hist[<<"global", RouteKey(r)>>].admitted = cfg.limit

(* ------------------------------- C13 ----------------------------------- *)
\* C13: with scope = authentication the bucket checked and incremented
\* for a request that carries a valid token is keyed by the principal the
\* token resolves to.
C13_ValidTokenKeyedByPrincipal ==
  [][\A r \in Slots :
       (/\ cfg.scope = "authentication"
        /\ req[r].token \in Principals
        /\ (Checks(r) \/ Admits(r)))
         => HasBucket(items', <<req[r].token, RouteKey(r)>>)]_vars

(* ------------------------------- C14 ----------------------------------- *)
\* The route key the claim gives a request.
C14_RouteKey(r) ==
  <<req[r].method,
    IF cfg.type = "endpoint" THEN req[r].route.path ELSE req[r].url>>

\* C14: the check and the admit of a request use the bucket whose route
\* key is the method with the route pattern when type = endpoint and the
\* method with the concrete request path when type = parameter, and leave
\* every other bucket as it is: parameter values share a bucket under
\* endpoint and have their own under parameter, and two methods never
\* share a bucket.
C14_RouteKeyByType ==
  [][\A r \in Slots :
       (cfg.type \in {"endpoint", "parameter"} /\ (Checks(r) \/ Admits(r)))
         => LET k == <<ClientKey(r), C14_RouteKey(r)>>
            IN /\ HasBucket(items', k)
               /\ OthersKept(k)
               /\ Checks(r) =>
                    (sent'[r] = <<TOO_MANY_REQUESTS>> <=> Bucket(items', k).limited)]_vars

\* Under type = parameter two parameter values of one pattern have a bucket
\* each, and each has admitted a request.
C14_Witness ==
  /\ cfg.type = "parameter"
  /\ \E i, j \in 1..Len(items) :
       /\ items[i].route = <<"GET", <<"a", "1">> >>
       /\ items[j].route = <<"GET", <<"a", "2">> >>
       /\ items[i].count = 1 /\ items[j].count = 1

(* ------------------------------- C15 ----------------------------------- *)
\* C15: the X-Ratelimit-Remaining header of an admitted request is the
\* capacity left after its own admission: limit minus the bucket's count
\* once the request has been counted.
C15_RemainingCountsOwnAdmission ==
  [][\A r \in Slots :
       (IsNumber(cfg.limit) /\ Admits(r))
         => obs[r].remaining = cfg.limit - Bucket(items', KeyOf(r)).count]_vars

(* ------------------------------- C16 ----------------------------------- *)
\* C16: on a route without any rate-limit configuration no bucket is ever
\* created and no request ends in an error or a 429.
C16_UnconfiguredNeverChecked ==
  cfg = Unconfigured
    => /\ items = <<>>
       /\ \A r \in Slots : exit[r] # "error" /\ sent[r] # <<TOO_MANY_REQUESTS>>

(* ------------------------------- C17 ----------------------------------- *)
\* The paths the internal routes reserve, and the paths of user route files.
ReservedPaths == {env.table[i].path : i \in {j \in 1..Len(env.table) : env.table[j].reserved}}
UserPaths(files) == {filePathToRoutePath(files[i]) : i \in 1..Len(files)}

\* C17: when a user route file derives the path of a reserved route, a
\* request to that path is resolved to the reserved route, and the table
\* holds no user route at that path.
C17_ReservedPathServesReservedRoute ==
  /\ \A i \in 1..Len(env.table) :
       env.table[i].path \in ReservedPaths => env.table[i].reserved
  /\ \A r \in Slots :
       (pc[r] # "idle" /\ req[r].url \in ReservedPaths \cap UserPaths(env.files))
         => req[r].route.reserved

(* ------------------------------- C18 ----------------------------------- *)
\* C18: a request is resolved to the first route in registration order
\* whose pattern matches its URL, with the parameters that pattern
\* extracts, also when a route registered later matches more specifically;
\* it is resolved to no route (404) exactly when no pattern matches.
C18_FirstMatchInRegistrationOrder ==
  [][\A r \in Slots :
       Arrives(r)
         => LET url == req'[r].url
                matching == {i \in 1..Len(env.table) : Match(env.table[i].path, url)}
            IN IF matching = {}
               THEN req'[r].route = NoRoute /\ sent'[r] = <<NOT_FOUND>>
               ELSE /\ sent'[r] = <<>>
                    /\ \E i \in matching :
                         /\ \A j \in matching : i <= j
                         /\ req'[r].route = env.table[i]
                         /\ req'[r].params =
                              {<<env.table[i].path[n], url[n]>> :
                                 n \in {m \in 1..Len(url) :
                                          IsPlaceholder(env.table[i].path[m])}}]_vars

\* A request to /a was resolved to the route /:id registered first, with
\* id = a, although the route /a is registered after it.
C18_Witness ==
  \E r \in Slots :
    /\ req[r].url = <<"a">>
    /\ req[r].route.path = <<":id">>
    /\ req[r].params = {<<":id", "a">>}
    /\ \E i \in 1..Len(env.table) : env.table[i].path = <<"a">>

(* ------------------------------- C19 ----------------------------------- *)
\* The user route files of the listing whose path another file of the
\* listing derives too.
Conflicting(files) ==
  {files[i] : i \in {m \in 1..Len(files) :
                       \E n \in 1..Len(files) :
                         /\ n # m
                         /\ filePathToRoutePath(files[n]) = filePathToRoutePath(files[m])}}

\* C19: when two user route files derive the same path, the route at that
\* path is disabled: the handler of neither file is ever dispatched, and a
\* request resolved to that route is answered 503 at the gate.
C19_DuplicatePathDisablesBoth ==
  /\ \A i \in 1..Len(env.table) :
       (~env.table[i].reserved /\ env.table[i].file \in Conflicting(env.files))
         => env.table[i].disabled
  /\ \A r \in Slots :
       req[r].route.file \in Conflicting(env.files) /\ ~req[r].route.reserved
         => /\ obs[r].handlerRuns = 0
            /\ pc[r] \in {"gate", "done"}
            /\ pc[r] = "done" => sent[r] = <<SERVICE_UNAVAILABLE>>

\* A request to /a, the path both a.ts and a/_.ts derive, was answered 503.
C19_Witness ==
  /\ Conflicting(env.files) = {<<"a">>, <<"a", "_">>}
  /\ \E r \in Slots :
       /\ req[r].url = <<"a">>
       /\ req[r].route.path = <<"a">>
       /\ pc[r] = "done"
       /\ sent[r] = <<SERVICE_UNAVAILABLE>>

(* ------------------------------- C20 ----------------------------------- *)
\* No pattern of the route table matches the URL.
MatchesNoRoute(url) == \A i \in 1..Len(env.table) : ~Match(env.table[i].path, url)

Authorized(r, principal) ==
  /\ pc[r] = "middleware"
  /\ mwIdx[r] = 1
  /\ sent[r] = <<>>
  /\ auth[r] = principal

\* The request rejected by API.authorize: 401 is the only answer, and
\* authorization is the last stage that ran.
Unauthorized(r) ==
  /\ pc[r] = "done"
  /\ sent[r] = <<UNAUTHORIZED>>
  /\ obs[r].ran[Len(obs[r].ran)] = "authorize"
  /\ obs[r].mwRuns = 0 /\ obs[r].handlerRuns = 0

\* C22: on a route without authorization override, authorization is this
\* function of (token present, resolver result, route allows
\* unauthenticated): no token and auth required, 401; no token and
\* unauthenticated allowed, proceed with no principal and without calling
\* the resolver; token, falsy result and auth required, 401; token, falsy
\* result and unauthenticated allowed, proceed with no principal; token and
\* non-falsy result, proceed with that result as principal.
C22_TokenFlowTruthTable ==
  \A r \in Slots :
    LET s == obs[r].authIn IN
    s.overwrite = "none" =>
      /\ (~s.token /\ ~s.unauthed) => Unauthorized(r) /\ obs[r].resolverCalls = 0
      /\ (~s.token /\ s.unauthed) => Authorized(r, "") /\ obs[r].resolverCalls = 0
      /\ (s.token /\ s.resolved = "" /\ ~s.unauthed)
           => Unauthorized(r) /\ obs[r].resolverCalls = 1
      /\ (s.token /\ s.resolved = "" /\ s.unauthed)
           => Authorized(r, "") /\ obs[r].resolverCalls = 1
      /\ (s.token /\ s.resolved \in Principals)
           => Authorized(r, s.resolved) /\ obs[r].resolverCalls = 1

\* A request with a token the resolver does not know went on without a
\* principal on a route that allows unauthenticated requests.
C22_Witness ==
  \E r \in Slots :
    LET s == obs[r].authIn IN
    /\ s.overwrite = "none" /\ s.token /\ s.resolved = "" /\ s.unauthed
    /\ Authorized(r, "")
    /\ obs[r].resolverCalls = 1

\* C23: on a route with a custom authorization override, a falsy result of
\* the override rejects the request with 401 and no later stage runs,
\* whether the override returns the result or a promise of it; a truthy
\* result skips the token flow, and the resolver is not called.
C23_OverrideDecidesSyncOrAsync ==
  \A r \in Slots :
    LET s == obs[r].authIn IN
    s.overwrite \in {"sync", "async"} =>
      /\ obs[r].resolverCalls = 0
      /\ s.owResult = "falsy" => Unauthorized(r)
      /\ s.owResult = "truthy" => Authorized(r, "")

\* The custom authorization override or the authentication resolver threw
\* (or its promise rejected) in the authorization of request r.
AuthorizeFaults(r) ==
  LET s == obs[r].authIn IN
  \/ s.overwrite \in {"sync", "async"} /\ s.owResult = "throws"
  \/ s.overwrite = "none" /\ s.token /\ s.resolved = "throws"

\* C24: a real error raised at any stage is caught and converted to a
\* response; when the custom authorization override or the authentication
\* resolver throws or rejects, the request still gets exactly one error
\* response and no later stage runs.
C24_AuthorizeFaultAnswered ==
  \A r \in Slots :
    AuthorizeFaults(r)
      => /\ pc[r] = "done"
         /\ Len(sent[r]) = 1
         /\ sent[r][1] >= 400
         /\ obs[r].ran[Len(obs[r].ran)] = "authorize"

\* How often the response writer was called with status for request r.
RECURSIVE Times(_, _)
Times(seq, status) ==
  IF seq = <<>> THEN 0
  ELSE (IF Head(seq) = status THEN 1 ELSE 0) + Times(Tail(seq), status)

C26_StopSignalIsNoFault ==
  \A r \in Slots :
    /\ obs[r].reported = obs[r].faults
    /\ Times(sent[r], INTERNAL_SERVER_ERROR) = obs[r].faults

\* A middleware entry ended a request with api.send: the stop signal left
\* the chain, the reporter was not called and no 500 was written.
C26_Witness ==
  \E r \in Slots :
    /\ obs[r].mwSent
    /\ pc[r] = "done"
    /\ obs[r].ran[Len(obs[r].ran)] = "middleware"
    /\ obs[r].reported = 0
    /\ sent[r] # <<>>
    /\ Times(sent[r], INTERNAL_SERVER_ERROR) = 0

\* The route's schema definition has a schema of the category for the
\* method; the params schema is shared by all methods.
HasSchema(schema, method, c) ==
  IF c = "params" THEN schema.params ELSE c \in schema[method]

\* The categories of request r that have a schema which rejects the raw
\* value.
FailedCategories(r) ==
  {c \in Categories :
     /\ HasSchema(obs[r].schema, req[r].method, c)
     /\ ~safeParse(obs[r].raw[c]).success}

\* C27: the categories body, params, query and files are judged
\* independently: the request is answered 400 with the schema-validation
\* marker header exactly when at least one validated category fails, the
\* error payload has an entry for a category iff that category was
\* validated and failed, and then the handler is never invoked.
C27_CategoriesJudgedIndependently ==
  \A r \in Slots :
    6 \in DOMAIN obs[r].ran =>
      /\ obs[r].errors = FailedCategories(r)
      /\ FailedCategories(r) # {}
           => /\ sent[r] = <<BAD_REQUEST>>
              /\ obs[r].marker
              /\ pc[r] = "done"
              /\ obs[r].handlerRuns = 0
              /\ obs[r].ran[Len(obs[r].ran)] = "validate"
      /\ FailedCategories(r) = {}
           => /\ ~obs[r].marker
              /\ Times(sent[r], BAD_REQUEST) = 0
              /\ pc[r] = "dispatch" \/ 7 \in DOMAIN obs[r].ran

\* A POST whose body passes its schema while its params fail theirs was
\* answered 400 with an error entry for params only.
C27_Witness ==
  \E r \in Slots :
    /\ req[r].method = "POST"
    /\ obs[r].schema.params /\ "body" \in obs[r].schema.POST
    /\ obs[r].raw["body"] = "1" /\ obs[r].raw["params"] = "x"
    /\ obs[r].errors = {"params"}
    /\ obs[r].marker
    /\ sent[r] = <<BAD_REQUEST>>

\* C28: when every validated category passes, the handler observes, for
\* each category that has a schema, the parsed value the schema returned
\* (not the raw input), and for each category without a schema the raw
\* value unchanged.
C28_HandlerObservesParsedValues ==
  \A r \in Slots :
    pc[r] = "handler" =>
      \A c \in Categories :
        req[r].bound[c] =
          IF HasSchema(obs[r].schema, req[r].method, c)
          THEN safeParse(obs[r].raw[c]).data
          ELSE obs[r].raw[c]

\* The handler of a POST runs on a route with a body schema and no query
\* schema: it observes the parsed body and the raw query.
C28_Witness ==
  \E r \in Slots :
    /\ pc[r] = "handler"
    /\ req[r].method = "POST"
    /\ obs[r].schema.POST = {"body"}
    /\ obs[r].raw["body"] = "1" /\ req[r].bound["body"] = "n1"
    /\ obs[r].raw["query"] = "1" /\ req[r].bound["query"] = "1"

C30_EntriesRunInPathOrder ==
  \A r \in Slots :
    \A i, j \in DOMAIN obs[r].mwOrder :
      i < j => Less(obs[r].mwOrder[i], obs[r].mwOrder[j])

\* The entries of the chain that ran for request r are the first mwRuns
\* loaded entries, each once.
RanOnceInTurn(r) ==
  /\ obs[r].mwRuns = Len(obs[r].mwOrder)
  /\ obs[r].mwRuns <= NumMw
  /\ \A i \in DOMAIN obs[r].mwOrder : obs[r].mwOrder[i] = env.mwFiles[i]

\* No entry of request r was called while another entry's promise was
\* pending, and no later stage runs while one is.
NeverOverlap(r) ==
  /\ ~obs[r].overlap
  /\ Cardinality(obs[r].mwActive) <= 1
  /\ obs[r].mwActive # {} => pc[r] = "mwAwait" /\ obs[r].mwActive = {mwIdx[r]}

\* C31 (as stated): within one request the middleware entries never
\* overlap, entry k+1 starting only after entry k completed, also when
\* entry k is asynchronous, and each entry runs exactly once for every
\* request that reaches the middleware stage.
C31_EveryEntryOnceNoOverlap ==
  \A r \in Slots :
    /\ NeverOverlap(r)
    /\ RanOnceInTurn(r)
    /\ (5 \in DOMAIN obs[r].ran /\ pc[r] \notin {"middleware", "mwAwait"})
         => obs[r].mwRuns = NumMw

\* C31 (amended): the entries never overlap, each entry runs at most once
\* and in turn, and every entry has run exactly once for a request that
\* the chain let through to validation; an entry that ends the request
\* (stop signal or real error) is the last entry that runs for it.
C31_EntriesInTurnNoOverlap ==
  \A r \in Slots :
    /\ NeverOverlap(r)
    /\ RanOnceInTurn(r)
    /\ 6 \in DOMAIN obs[r].ran => obs[r].mwRuns = NumMw
    /\ (5 \in DOMAIN obs[r].ran /\ pc[r] = "done" /\ obs[r].mwRuns < NumMw)
         => /\ Len(obs[r].ran) = 5
            /\ obs[r].mwSent \/ obs[r].faults = 1

\* The first entry is asynchronous and its promise is pending: the second
\* entry has not been called.
C31_Witness ==
  \E r \in Slots :
    /\ pc[r] = "mwAwait"
    /\ obs[r].mwActive = {1}
    /\ obs[r].mwRuns = 1

\* C32: the middleware entries are executed on every request, including
\* requests whose URL matches no route and is answered 404.
C32_MiddlewareRunsOnEveryRequest ==
  \A r \in Slots :
    (pc[r] = "done" /\ sent[r] = <<NOT_FOUND>> /\ MatchesNoRoute(req[r].url))
      => obs[r].mwRuns >= 1

\* C33: the middleware entries run before route-specific authentication:
\* for a request without credentials to a route that requires
\* authentication, every entry has run before the 401 is produced.
C33_MiddlewareBeforeAuthentication ==
  \A r \in Slots :
    LET s == obs[r].authIn IN
    (s.overwrite = "none" /\ ~s.token /\ ~s.unauthed
       /\ Times(sent[r], UNAUTHORIZED) >= 1)
      => obs[r].mwRuns = NumMw

\* C34: while a bucket exists its count never decreases and its limited
\* flag never returns from true to false; the only transition that gives a
\* client capacity back is the sweep removing the whole bucket, which it
\* does only once the bucket's windowEnd has passed.
C34_CapacityOnlyBackBySweep ==
  [][\A k \in DOMAIN hist :
       HasBucket(items, k) =>
         \/ /\ HasBucket(items', k)
            /\ Bucket(items', k).count >= Bucket(items, k).count
            /\ Bucket(items, k).limited => Bucket(items', k).limited
         \/ /\ ~HasBucket(items', k)
            /\ Sweep
            /\ Bucket(items, k).end <= now]_vars

\* The sweep has removed a limited bucket whose count had reached the
\* limit, and the key has no bucket.
C34_Witness ==
  \E k \in DOMAIN hist :
    /\ cfg.limit >= 1
    /\ hist[k].was = "limited"
    /\ hist[k].checks = 0
    /\ ~HasBucket(items, k)
    /\ swept

\* C35: check never reports a request as limited, never sets limited and
\* never extends windowEnd on the basis of a bucket whose windowEnd is
\* already <= now: a bucket that has expired but is not yet removed by the
\* sweep is treated like an absent bucket (with limit >= 1 the request then
\* passes the check on a bucket that is not limited).
C35_ExpiredBucketTreatedAsAbsent ==
  [][\A r \in Slots :
       (/\ cfg.limit >= 1
        /\ Checks(r)
        /\ HasBucket(items, KeyOf(r))
        /\ Bucket(items, KeyOf(r)).end <= now)
         => /\ pc'[r] = "admit"
            /\ sent'[r] = sent[r]
            /\ ~Bucket(items', KeyOf(r)).limited
            /\ \/ Bucket(items', KeyOf(r)).end = Bucket(items, KeyOf(r)).end
               \/ Bucket(items', KeyOf(r)).end = now + cfg.remember]_vars

\* C36: for a configured limit >= 0 every bucket satisfies
\* 0 <= count <= limit in every reachable state, so the reported Remaining
\* value limit - count is never negative, for any sequence and interleaving
\* of checks, admits and sweeps.
C36_CountWithinLimit ==
  cfg.limit >= 0 =>
    \A i \in 1..Len(items) :
      /\ 0 <= items[i].count
      /\ items[i].count <= cfg.limit
      /\ cfg.limit - items[i].count >= 0

\* A bucket is full and limited while a request of the same client is
\* suspended after its admission.
C36_Witness ==
  \E i \in 1..Len(items), r \in Slots :
    /\ cfg.limit = MaxLimit
    /\ items[i].count = cfg.limit
    /\ items[i].limited
    /\ pc[r] \in {"mwAwait", "handler"}

\* C37: a request that ends in 404 (no route), 503 (disabled) or 301
\* (moved) leaves the rate-limit bucket table unchanged: it creates no
\* bucket and changes no count, limited flag or windowEnd. The step that
\* writes one of these answers leaves the table as it is, and the request
\* took no rate-limit step before it.
C37_UngatedRequestsLeaveBuckets ==
  [][\A r \in Slots :
       (/\ pc[r] \in {"idle", "gate"}
        /\ sent'[r] # sent[r]
        /\ sent'[r][Len(sent'[r])]
              \in {NOT_FOUND, SERVICE_UNAVAILABLE, MOVED_PERMANENTLY})
         => /\ items' = items
            /\ pc'[r] = "done"
            /\ \A i \in DOMAIN obs'[r].ran :
                 obs'[r].ran[i] \notin {"check", "admit"}]_vars

\* A request to a disabled route was answered 503 while the table holds a
\* bucket of an earlier request.
C37_Witness ==
  \E r \in Slots :
    /\ sent[r] = <<SERVICE_UNAVAILABLE>>
    /\ pc[r] = "done"
    /\ obs[r].ran = <<"gate">>
    /\ Len(items) = 1
    /\ items[1].count = 1

\* C38: a request whose URL equals the path of a reserved route is always
\* resolved to that reserved route, whichever user routes are registered,
\* also user routes with a placeholder pattern that matches the reserved
\* path: no user route shadows a reserved route.
C38_ReservedRouteNeverShadowed ==
  [][\A r \in Slots :
       (Arrives(r) /\ req'[r].url \in ReservedPaths)
         => /\ req'[r].route.reserved
            /\ req'[r].route.path = req'[r].url
            /\ req'[r].params = {}]_vars

\* The bucket keys of the requests of one address on the registered routes.
LenientKeys ==
  {"ip1"} \X ({"GET"} \X {RouteItems[i].path : i \in 1..Len(RouteItems)})

\* The key has a limited bucket whose window ends within the time the clock
\* covers.
LimitedWithin(k) ==
  /\ HasBucket(items, k)
  /\ Bucket(items, k).limited
  /\ Bucket(items, k).end <= MaxTime

\* The first check of a key after the sweep removed its limited bucket
\* starts a fresh bucket and is not limited.
AdmittedAgain(r) ==
  (Checks(r) /\ hist[KeyOf(r)].was = "limited") => StartsFresh(r)

\* C39 as stated: with strict = false a limited client is eventually
\* admitted again, however often it sends requests while limited, when time
\* advances and the sweep keeps running: the limited bucket is eventually
\* removed and a later request is not limited.
C39_LimitedEventuallyAdmitted ==
  /\ \A k \in LenientKeys : LimitedWithin(k) ~> ~HasBucket(items, k)
  /\ [][\A r \in Slots : AdmittedAgain(r)]_vars

\* C39 amended: the limited bucket is eventually removed for every limit,
\* and the later request is not limited when the limit is at least 1.
C39_LimitedEventuallyAdmittedPositiveLimit ==
  /\ \A k \in LenientKeys : LimitedWithin(k) ~> ~HasBucket(items, k)
  /\ [][\A r \in Slots : cfg.limit >= 1 => AdmittedAgain(r)]_vars

\* With strict = false the sweep has removed a client's limited bucket and
\* the client's next request has passed the check on a fresh bucket.
C39_Witness ==
  \E r \in Slots :
    /\ ~cfg.strict
    /\ cfg.limit = MaxLimit
    /\ KeyOf(r) \in LenientKeys
    /\ pc[r] = "admit" /\ running = r
    /\ hist[KeyOf(r)].was = "limited"
    /\ ~Bucket(items, KeyOf(r)).limited

\* The value the layers give field f for the method: the method-level value
\* when the method's layer has the field, otherwise the route-level value
\* when the route level has it, otherwise the default.
LayeredValue(defaults, own, method, f) ==
  IF method # "" /\ method \in DOMAIN own /\ f \in DOMAIN own[method]
  THEN own[method][f]
  ELSE IF f \in DOMAIN own THEN own[f] ELSE defaults[f]

\* What the route file exports under the name, the empty object if nothing.
Exported(name) == IF name \in DOMAIN env.file THEN env.file[name] ELSE EmptyObject

\* The route file without what it says for the methods other than method.
WithoutOthers(file, method) ==
  [name \in DOMAIN file |->
     [k \in DOMAIN file[name] \ (Methods \ {method}) |-> file[name][k]]]

\* C40: the resolved settings and the resolved rate limits of a route for a
\* method are the layered merge defaults, route level, method level: every
\* field has the method-level value when that layer has the field,
\* otherwise the route-level value, otherwise the global default; and what
\* the route file says for another method changes no field of the result.
C40_LayeredMerge ==
  [][\A r \in Slots :
       obs'[r].ran = <<"gate">> =>
         LET method == req'[r].method IN
         /\ \A f \in SettingFields :
              /\ obs'[r].settings[f] =
                   LayeredValue(env.config.defaults, Exported("settings"), method, f)
              /\ obs'[r].settings[f] =
                   settingsFor(env.config, WithoutOthers(env.file, method), method)[f]
         /\ \A f \in RatelimitFields :
              /\ cfg'[f] =
                   LayeredValue(env.config.ratelimits, Exported("ratelimits"), method, f)
              /\ cfg'[f] =
                   ratelimitsFor(env.config, WithoutOthers(env.file, method), method)[f]]_vars

\* All three layers give `disabled` a value and POST has another one: the
\* settings resolved for GET hold GET's value, while `moved`, which only the
\* route level gives, holds the route-level value.
C40_Witness ==
  /\ "settings" \in DOMAIN env.file
  /\ DOMAIN env.file.settings = SettingFields \cup Methods
  /\ env.file.settings.disabled = "undefined"
  /\ env.file.settings.moved = "b"
  /\ env.file.settings["GET"] = [disabled |-> "b"]
  /\ env.file.settings["POST"] = [disabled |-> "a", moved |-> "undefined"]
  /\ req[1].method = "GET"
  /\ obs[1].ran = <<"gate">>
  /\ obs[1].settings.disabled = "b"
  /\ obs[1].settings.moved = "b"

=============================================================================
